---- MODULE Spec2Model ----
(***************************************************************************)
(* Model of the notebook bonus-2-property-based-testing.ipynb:             *)
(*   - increment(x) and its two tests (single example, property-based);    *)
(*   - the quadratic-roots formula of the "Encoding Assumptions" cell;     *)
(*   - test_eq_roots and eq_roots.                                         *)
(* The notebook leaves two holes, both written "..." in the source: the    *)
(* condition of assume(discriminant...) and the body of eq_roots.  They    *)
(* are filled from the specification (AssumeCond, eq_roots).               *)
(*                                                                         *)
(* Python values are records [t, v]: t is the type, v the integer payload. *)
(* Real numbers of the form (num + sq * sqrt(rad)) / den are kept exactly  *)
(* as records [num, sq, rad, den]; floating-point rounding is not modelled.*)
(***************************************************************************)
EXTENDS Integers, Sequences, FiniteSets, TLC

VARIABLES
    pc,            \* position of the interpreter: "idle" or inside a test
    x,             \* the caller's argument variable of increment
    ret,           \* value returned by the last increment(x), or NoValue
    exc,           \* exception raised by the last increment(x), or "none"
    calls,         \* number of increment(x) calls made since x was bound
    asserted,      \* outcome of test_increment's assert
    coefficients,  \* <<a, b, c>>, or <<>> before any is bound
    eqOutcome,     \* how the last eq_roots call ended
    root1, root2,  \* the pair returned by eq_roots
    formula1,      \* the notebook formula with the + sign
    formula2,      \* the notebook formula with the - sign
    testOutcome    \* outcome of test_eq_roots on the current example

incVars == <<x, ret, exc, calls, asserted>>
eqVars == <<coefficients, eqOutcome, root1, root2, formula1, formula2, testOutcome>>
vars == <<pc, x, ret, exc, calls, asserted, coefficients, eqOutcome, root1, root2,
          formula1, formula2, testOutcome>>

---------------------------------------------------------------------------
(* Bounds *)

\* st.integers() draws from -MaxInt .. MaxInt
MaxInt == 3
\* the coefficients a, b, c are drawn from -MaxCoef .. MaxCoef
MaxCoef == 2
\* increment is called at most MaxCalls times on one binding of x
MaxCalls == 2
\* the example value of the single-example test
ExampleX == 10

---------------------------------------------------------------------------
(* Python values *)

NoValue == [t |-> "unbound", v |-> 0]
IntVal(n) == [t |-> "int", v |-> n]
FloatVal(n) == [t |-> "float", v |-> n]
PosInf == [t |-> "inf", v |-> 0]
NegInf == [t |-> "ninf", v |-> 0]
NaN == [t |-> "nan", v |-> 0]
StrVal == [t |-> "str", v |-> 0]

GeneratedIntegers == -MaxInt .. MaxInt

NumericValues ==
    {IntVal(n) : n \in GeneratedIntegers \cup {ExampleX}}
        \cup {FloatVal(n) : n \in {-1, 0}}
        \cup {PosInf, NegInf, NaN}

Values == NumericValues \cup {StrVal}

IsNumeric(v) == v.t \in {"int", "float", "inf", "ninf", "nan"}

\* Python's v + n and v - n for an int n: [val, exc]
PyAdd(v, n) ==
    CASE v.t \in {"int", "float"} -> [val |-> [t |-> v.t, v |-> v.v + n], exc |-> "none"]
      [] v.t \in {"inf", "ninf", "nan"} -> [val |-> v, exc |-> "none"]
      [] OTHER -> [val |-> NoValue, exc |-> "TypeError"]

PySub(v, n) == PyAdd(v, -n)

\* Python's u == v on numbers: int and float compare by value, nan equals nothing
PyEq(u, v) ==
    CASE u.t = "nan" \/ v.t = "nan" -> FALSE
      [] u.t \in {"int", "float"} /\ v.t \in {"int", "float"} -> u.v = v.v
      [] OTHER -> u = v

\* mutants of increment
IncrementTwice(v) == PyAdd(v, 2)
IncrementIntOnly(v) ==
    IF v.t = "int" THEN PyAdd(v, 1) ELSE [val |-> NoValue, exc |-> "TypeError"]

\* def increment(x): return x + 1
increment(v) == PyAdd(v, 1)

---------------------------------------------------------------------------
(* Exact real arithmetic on (num + sq * sqrt(rad)) / den *)

NoRoot == [num |-> 0, sq |-> 0, rad |-> 0, den |-> 0]

Sign(n) == IF n > 0 THEN 1 ELSE IF n < 0 THEN -1 ELSE 0

\* sign of u + v * sqrt(d), for d >= 0
SignSurd(u, v, d) ==
    IF v = 0 \/ d = 0 THEN Sign(u)
    ELSE IF u = 0 THEN Sign(v)
    ELSE IF Sign(u) = Sign(v) THEN Sign(u)
    ELSE IF u > 0 THEN Sign(u * u - v * v * d)
    ELSE Sign(v * v * d - u * u)

\* r >= s for two numbers over the same radicand
Geq(r, s) ==
    SignSurd(r.num * s.den - s.num * r.den, r.sq * s.den - s.sq * r.den, r.rad)
        * Sign(r.den * s.den) >= 0

SameValue(r, s) == Geq(r, s) /\ Geq(s, r)

\* a number is real-valued when its square-root part is not imaginary
IsReal(r) == r.den # 0 /\ (r.rad >= 0 \/ r.sq = 0)

\* sign of the numerator of a*r^2 + b*r + c over r.den^2
Substitute(a, b, c, r) ==
    SignSurd(a * r.num * r.num + a * r.sq * r.sq * r.rad + b * r.den * r.num
                 + c * r.den * r.den,
             2 * a * r.num * r.sq + b * r.den * r.sq,
             r.rad)

---------------------------------------------------------------------------
(* The quadratic a*x^2 + b*x + c *)

Coefficients == -MaxCoef .. MaxCoef

\* mutants of the discriminant
DiscriminantMissingC(a, b, c) == b * b - 4 * a
RadicandPlus(a, b, c) == b * b + 4 * a * c
RadicandMissingFour(a, b, c) == b * b - a * c

\* discriminant = b**2 - 4*a*c, in test_eq_roots
Discriminant(a, b, c) == b * b - 4 * a * c

\* the portion in the square root of the roots formula
Radicand(a, b, c) == b * b - 4 * a * c

\* the notebook's formula: (-a +- sqrt(b^2 - 4ac)) / 2a
NotebookRoot(a, b, c, sgn) ==
    [num |-> -a, sq |-> sgn, rad |-> Radicand(a, b, c), den |-> 2 * a]

\* the standard quadratic formula: (-b +- sqrt(b^2 - 4ac)) / 2a
StandardRoot(a, b, c, sgn) ==
    [num |-> -b, sq |-> sgn, rad |-> Radicand(a, b, c), den |-> 2 * a]

\* the condition completing assume(discriminant...): negative discriminants
\* are filtered out
AssumeCond(d) == d >= 0

\* eq_roots(coefficients): the non-complex roots by the quadratic formula,
\* the larger first.  math.sqrt raises ValueError on a negative number and
\* dividing by 2a raises ZeroDivisionError when a = 0.
eq_roots(coef) ==
    LET a == coef[1]
        b == coef[2]
        c == coef[3]
        plus == StandardRoot(a, b, c, 1)
        minus == StandardRoot(a, b, c, -1)
    IN  IF Radicand(a, b, c) < 0
          THEN [out |-> "ValueError", r1 |-> NoRoot, r2 |-> NoRoot]
        ELSE IF a = 0
          THEN [out |-> "ZeroDivisionError", r1 |-> NoRoot, r2 |-> NoRoot]
        ELSE IF Geq(plus, minus)
          THEN [out |-> "returned", r1 |-> plus, r2 |-> minus]
        ELSE [out |-> "returned", r1 |-> minus, r2 |-> plus]

---------------------------------------------------------------------------
(* Initial state: nothing bound, nothing called *)

Init ==
    /\ pc = "idle"
    /\ x = NoValue
    /\ ret = NoValue
    /\ exc = "none"
    /\ calls = 0
    /\ asserted = "none"
    /\ coefficients = <<>>
    /\ eqOutcome = "none"
    /\ root1 = NoRoot
    /\ root2 = NoRoot
    /\ formula1 = NoRoot
    /\ formula2 = NoRoot
    /\ testOutcome = "none"

---------------------------------------------------------------------------
(* increment and its tests *)

\* a caller binds x to some value
BindX ==
    /\ pc = "idle"
    /\ \E v \in Values : x' = v
    /\ ret' = NoValue
    /\ exc' = "none"
    /\ calls' = 0
    /\ asserted' = "none"
    /\ UNCHANGED <<pc, eqVars>>

\* test_increment(): x = 10
GivenExample ==
    /\ pc = "idle"
    /\ x' = IntVal(ExampleX)
    /\ ret' = NoValue
    /\ exc' = "none"
    /\ calls' = 0
    /\ asserted' = "none"
    /\ pc' = "ti_call"
    /\ UNCHANGED eqVars

\* @given(st.integers()) test_increment(x)
GivenInteger ==
    /\ pc = "idle"
    /\ \E n \in GeneratedIntegers : x' = IntVal(n)
    /\ ret' = NoValue
    /\ exc' = "none"
    /\ calls' = 0
    /\ asserted' = "none"
    /\ pc' = "ti_call"
    /\ UNCHANGED eqVars

\* mutant of the call: increment written as x += 1; return x
CallIncrementInPlace ==
    /\ pc \in {"idle", "ti_call"}
    /\ x # NoValue
    /\ calls < MaxCalls
    /\ ret' = increment(x).val
    /\ exc' = increment(x).exc
    /\ x' = IF increment(x).exc = "none" THEN increment(x).val ELSE x
    /\ calls' = calls + 1
    /\ pc' = IF pc = "ti_call" THEN "ti_assert" ELSE pc
    /\ UNCHANGED <<asserted, eqVars>>

\* increment(x), called directly or from a test
CallIncrement ==
    /\ pc \in {"idle", "ti_call"}
    /\ x # NoValue
    /\ calls < MaxCalls
    /\ ret' = increment(x).val
    /\ exc' = increment(x).exc
    /\ calls' = calls + 1
    /\ pc' = IF pc = "ti_call" THEN "ti_assert" ELSE pc
    /\ UNCHANGED <<x, asserted, eqVars>>

\* assert increment(x) - 1 == x
AssertIncrement ==
    /\ pc = "ti_assert"
    /\ asserted' = IF exc # "none" \/ PySub(ret, 1).exc # "none" THEN "error"
                   ELSE IF PyEq(PySub(ret, 1).val, x) THEN "passed"
                   ELSE "failed"
    /\ pc' = "idle"
    /\ UNCHANGED <<x, ret, exc, calls, eqVars>>

---------------------------------------------------------------------------
(* eq_roots, the roots formula and test_eq_roots *)

\* three integers become the coefficients, one st.integers() draw (or one
\* choice of a caller) at a time: a, then b, then c
DrawCoefficient ==
    /\ pc \in {"idle", "draw_b", "draw_c"}
    /\ \E n \in Coefficients :
         coefficients' = IF pc = "idle" THEN <<n>> ELSE Append(coefficients, n)
    /\ pc' = IF pc = "idle" THEN "draw_b" ELSE IF pc = "draw_b" THEN "draw_c" ELSE "idle"
    /\ eqOutcome' = "none"
    /\ root1' = NoRoot
    /\ root2' = NoRoot
    /\ formula1' = NoRoot
    /\ formula2' = NoRoot
    /\ testOutcome' = "none"
    /\ UNCHANGED incVars

\* test_eq_roots(a, b, c) is entered on the drawn integers
GivenCoefficients ==
    /\ pc = "idle"
    /\ coefficients # <<>>
    /\ testOutcome = "none"
    /\ eqOutcome' = "none"
    /\ root1' = NoRoot
    /\ root2' = NoRoot
    /\ pc' = "te_assume"
    /\ UNCHANGED <<incVars, coefficients, formula1, formula2, testOutcome>>

\* discriminant = b**2 - 4*a*c; assume(discriminant...): a false assumption
\* abandons the example
TestAssume ==
    /\ pc = "te_assume"
    /\ IF AssumeCond(Discriminant(coefficients[1], coefficients[2], coefficients[3]))
         THEN /\ pc' = "te_call"
              /\ UNCHANGED testOutcome
         ELSE /\ pc' = "idle"
              /\ testOutcome' = "skipped"
    /\ UNCHANGED <<incVars, coefficients, eqOutcome, root1, root2, formula1, formula2>>

\* r1, r2 = eq_roots(coefficients), called directly or from the test; an
\* exception ends the test
CallEqRoots ==
    /\ pc \in {"idle", "te_call"}
    /\ coefficients # <<>>
    /\ eqOutcome' = eq_roots(coefficients).out
    /\ root1' = eq_roots(coefficients).r1
    /\ root2' = eq_roots(coefficients).r2
    /\ IF pc = "idle"
         THEN UNCHANGED <<pc, testOutcome>>
         ELSE IF eq_roots(coefficients).out = "returned"
           THEN /\ pc' = "te_assert"
                /\ UNCHANGED testOutcome
           ELSE /\ pc' = "idle"
                /\ testOutcome' = "error"
    /\ UNCHANGED <<incVars, coefficients, formula1, formula2>>

\* assert r1 >= r2
AssertRoots ==
    /\ pc = "te_assert"
    /\ testOutcome' = IF Geq(root1, root2) THEN "passed" ELSE "failed"
    /\ pc' = "idle"
    /\ UNCHANGED <<incVars, coefficients, eqOutcome, root1, root2, formula1, formula2>>

\* the two values of the notebook's roots formula for the bound coefficients
ApplyFormula ==
    /\ pc = "idle"
    /\ coefficients # <<>>
    /\ formula1' = NotebookRoot(coefficients[1], coefficients[2], coefficients[3], 1)
    /\ formula2' = NotebookRoot(coefficients[1], coefficients[2], coefficients[3], -1)
    /\ UNCHANGED <<pc, incVars, coefficients, eqOutcome, root1, root2, testOutcome>>

---------------------------------------------------------------------------

Next ==
    \/ BindX
    \/ GivenExample
    \/ GivenInteger
    \/ CallIncrement
    \/ AssertIncrement
    \/ DrawCoefficient
    \/ GivenCoefficients
    \/ TestAssume
    \/ CallEqRoots
    \/ AssertRoots
    \/ ApplyFormula

Spec == Init /\ [][Next]_vars

---------------------------------------------------------------------------
(* Properties *)

\* the three coefficients are bound
Bound == Len(coefficients) = 3 /\ pc \notin {"draw_b", "draw_c"}

\* b^2 - 4ac of the bound coefficients
D == coefficients[2] * coefficients[2] - 4 * coefficients[1] * coefficients[3]

\* C1: for every integer x, increment(x) - 1 == x: whenever test_increment
\* reaches its assert on an integer x, the returned value minus 1 is x and
\* the assert passes
C1_IncrementMinusOneIsX ==
    (pc = "ti_assert" \/ asserted # "none") =>
        /\ x.t = "int"
        /\ exc = "none"
        /\ ret.t = "int"
        /\ ret.v - 1 = x.v
        /\ asserted \in {"none", "passed"}

C1_Witness == asserted = "passed" /\ x.v < 0

\* C2: increment(x) returns x + 1 for any numeric x and never raises on one:
\* an int or a finite float comes back one larger and of the same type, an
\* infinity or a nan comes back as itself
C2_IncrementReturnsXPlusOne ==
    (calls > 0 /\ IsNumeric(x)) =>
        /\ exc = "none"
        /\ ret.t = x.t
        /\ ret.v = IF x.t \in {"int", "float"} THEN x.v + 1 ELSE x.v

C2_Witness == calls > 0 /\ x.t = "float" /\ exc = "none" /\ ret.v = x.v + 1

\* C3: for all integers a, b, c with b^2 - 4ac >= 0, eq_roots((a, b, c))
\* returns a pair with root1 >= root2
C3_EqRootsReturnsOrderedPair ==
    (Bound /\ eqOutcome # "none" /\ D >= 0) =>
        /\ eqOutcome = "returned"
        /\ Geq(root1, root2)

C6_IncrementHasNoSideEffects ==
    [][calls' = calls + 1 =>
          /\ x' = x
          /\ asserted' = asserted
          /\ eqVars' = eqVars
          /\ (calls >= 1 => (ret' = ret /\ exc' = exc))]_vars

C6_Witness == calls >= 2 /\ exc = "none" /\ ret.v = x.v + 1

\* C7: for a # 0 and b^2 - 4ac >= 0 both values of the notebook's formula,
\* (-a +- sqrt(b^2 - 4ac)) / 2a, make a*x^2 + b*x + c equal to 0
C7_NotebookFormulaGivesRoots ==
    (Bound /\ coefficients[1] # 0 /\ D >= 0 /\ formula1 # NoRoot) =>
        /\ Substitute(coefficients[1], coefficients[2], coefficients[3], formula1) = 0
        /\ Substitute(coefficients[1], coefficients[2], coefficients[3], formula2) = 0

C9_FilterExcludesZeroA ==
    pc \in {"te_call", "te_assert"} => coefficients[1] # 0

====
